---- MODULE Spec2Model ----
(***************************************************************************)
(* Sofia transport ontology builder (src/main.py): the run of main() as a  *)
(* state machine.  One action per loop body (one CSV row), one for the end *)
(* of a table, one for sync_reasoner() and one for onto.save().            *)
(*                                                                         *)
(* The store is what owlready2 shows of the ontology: the individuals, the *)
(* object-property edges (an edge of a property with a declared inverse is *)
(* visible from both ends), the data-property values, and after the        *)
(* reasoner call the class memberships it adds.                            *)
(***************************************************************************)
EXTENDS Integers, Sequences, FiniteSets, TLC

VARIABLES
  pc,            \* position of main(): the table being read, then reason/save/done/error
  n,             \* rows of the current table consumed so far (the DataFrame index)
  profile,       \* the class of input tables this run reads (fixed at Init)
  level_by_id,   \* keys of the dict level_by_id
  stop_by_id,    \* keys of the dict stop_by_id
  route_by_id,   \* keys of the dict route_by_id
  agency_by_id,  \* keys of the dict agency_by_id
  trip_by_id,    \* keys of the dict trip_by_id
  inds,          \* individuals of the ontology, <<class, key>>
  edges,         \* object-property assertions, <<property, source, target>>
  data,          \* data-property assertions, <<individual, property, value>>
  inferred,      \* class memberships added by sync_reasoner, <<individual, class>>
  counts,        \* the counts main() prints after saving
  last,          \* the row the last step read (history)
  late,          \* parent_station references dropped at the time of their row (history)
  replaced       \* <<individual, property>> whose value an assignment replaced (history)

vars == <<pc, n, profile, level_by_id, stop_by_id, route_by_id, agency_by_id,
          trip_by_id, inds, edges, data, inferred, counts, last, late, replaced>>

----------------------------------------------------------------------------
\* Bounds of the model: rows read per table (main.py caps each table with
\* _limit(df, MAX_*); the model reads at most this many rows of each).
MaxLevels == 1
MaxStops == 3
MaxRoutes == 2
MaxTrips == 2
MaxTransfers == 2
MaxPathways == 2
MaxFares == 2

----------------------------------------------------------------------------
\* Cells of a DataFrame.

\* A missing cell (pandas NaN).
NaN == "<NaN>"

\* Text cells that carry surrounding blanks, with what str.strip() leaves.
Padded == (" s1" :> "s1") @@ (" r1" :> "r1")

\* _safe_str: "" for a missing cell, else str(x).strip().
SafeStr(x) == IF x = NaN THEN ""
              ELSE IF x \in DOMAIN Padded THEN Padded[x] ELSE x

\* Series.astype(str): the text of the cell as it is, "nan" for a missing cell.
AsStr(x) == IF x = NaN THEN "nan" ELSE x

\* A numeric cell is <<"nan", 0>>, <<"num", t>> (the number t/10, as pandas
\* read it) or <<"txt", 0>> (text that is no number).
NumNaN == <<"nan", 0>>
Num(t) == <<"num", t>>
Txt == <<"txt", 0>>

\* int(x): truncation towards zero of t/10.
Trunc(t) == IF t >= 0 THEN t \div 10 ELSE -((-t) \div 10)

\* _safe_int with default None: the empty set for None, else {int value}.
SafeInt(c) == IF c[1] = "num" THEN {Trunc(c[2])} ELSE {}

\* _safe_float with default None: the empty set for None, else {value in tenths}.
SafeFloat(c) == IF c[1] = "num" THEN {c[2]} ELSE {}

\* A text attribute is set only when the stripped text is not empty.
SafeText(x) == IF SafeStr(x) = "" THEN {} ELSE {SafeStr(x)}

----------------------------------------------------------------------------
\* The schema (with onto: ...).

\* inverse_property declarations; owlready2 links the pair in both directions.
InverseOf == ("servesStop" :> "isServedBy") @@ ("isServedBy" :> "servesStop")
          @@ ("hasTrip" :> "belongsToRoute") @@ ("belongsToRoute" :> "hasTrip")
          @@ ("providesFare" :> "providedByAgency")
          @@ ("providedByAgency" :> "providesFare")

\* Object properties declared FunctionalProperty.
FunctionalObjectProps == {"parentStation"}

\* Data properties; every one is declared FunctionalProperty.
DataProps == {"stopName", "stopLat", "stopLon", "locationType", "routeType",
              "routeShortName", "tripHeadsign", "wheelchairAccessible",
              "pathwayMode", "isBidirectional", "minTransferTime", "farePrice",
              "paymentMethod", "transferDuration"}

\* class X(Parent): the declared parent of each named class.
ParentClass == [c \in {"MetroStop", "TramStop", "BusStop", "ServedStop",
                       "MetroOnlyStop", "AccessibleStop", "SurfaceStop"} |-> "Stop"]
            @@ [c \in {"BusRoute", "TramRoute", "MetroRoute", "MetroLine"} |-> "Route"]
            @@ [c \in {"LongTrip", "ShortTrip", "WheelchairFriendlyTrip"} |-> "Trip"]
            @@ [c \in {"FastTransfer", "SlowTransfer"} |-> "Transfer"]
            @@ [c \in {"ElevatorPathway", "StairsPathway", "EscalatorPathway",
                       "Walkway"} |-> "Pathway"]

\* The individual named f"{class}_{key}".
Ind(cls, key) == <<cls, key>>

----------------------------------------------------------------------------
\* Assignments to properties of an individual (owlready2).

\* Variant: the edge alone, whatever the declared inverse.
AppendOneWay(E, P, s, t) == E \cup {<<P, s, t>>}

\* prop.append(t) on individual s: the edge, and the mirrored edge when the
\* property has a declared inverse.
AppendEdge(E, P, s, t) ==
  E \cup {<<P, s, t>>}
    \cup (IF P \in DOMAIN InverseOf THEN {<<InverseOf[P], t, s>>} ELSE {})

\* s.prop = t for a functional object property: the former value is replaced.
SetEdge(E, P, s, t) == {e \in E : ~(e[1] = P /\ e[2] = s)} \cup {<<P, s, t>>}

\* Variant: the value is added to those the individual holds.
SetDataAppend(D, x, a, v) == D \cup {<<x, a, v>>}

\* x.attr = v for a functional data property: the former value is replaced.
SetData(D, x, a, v) == {d \in D : ~(d[1] = x /\ d[2] = a)} \cup {<<x, a, v>>}

\* "if v is not None: x.attr = v", v given as the empty set or a singleton.
SetIf(D, x, a, opt) == IF opt = {} THEN D
                       ELSE SetData(D, x, a, CHOOSE v \in opt : TRUE)

\* The values of attribute a of individual x.
Values(D, x, a) == {d[3] : d \in {e \in D : e[1] = x /\ e[2] = a}}

\* The targets of property P from s.
Targets(E, P, s) == {e[3] : e \in {f \in E : f[1] = P /\ f[2] = s}}

----------------------------------------------------------------------------
\* The input tables.  A run reads the tables of one input class; a class
\* gives, per table, the rows a table of that class may hold (one table is
\* wide, the tables it refers to are plain).

NoRows == {}

LevelRows(ids) == [level_id : ids]

StopRows(ids, names, lats, lons, lts, lvls, parents) ==
  [stop_id : ids, stop_name : names, stop_lat : lats, stop_lon : lons,
   location_type : lts, level_id : lvls, parent_station : parents]

RouteRows(ids, shorts, types, agencies) ==
  [route_id : ids, route_short_name : shorts, route_type : types,
   agency_id : agencies]

TripRows(ids, routes, heads, was) ==
  [trip_id : ids, route_id : routes, trip_headsign : heads,
   wheelchair_accessible : was]

TransferRows(fss, tss, mtts, frs, trs, fts, tts) ==
  [from_stop_id : fss, to_stop_id : tss, min_transfer_time : mtts,
   from_route_id : frs, to_route_id : trs, from_trip_id : fts, to_trip_id : tts]

PathwayRows(ids, fss, tss, modes, bis) ==
  [pathway_id : ids, from_stop_id : fss, to_stop_id : tss, pathway_mode : modes,
   is_bidirectional : bis]

FareRows(ids, prices, pms, durs, agencies) ==
  [fare_id : ids, price : prices, payment_method : pms, transfer_duration : durs,
   agency_id : agencies]

\* Plain rows: an identifier and nothing else.
PlainStops(ids) ==
  StopRows(ids, {NaN}, {NumNaN}, {NumNaN}, {NumNaN}, {NaN}, {NaN})
PlainRoutes(ids, types, agencies) == RouteRows(ids, {NaN}, types, agencies)
PlainTrips == TripRows({"t1"}, {"r1"}, {NaN}, {NumNaN})

Empty ==
  [levels |-> NoRows, stops |-> NoRows, routes |-> NoRows, trips |-> NoRows,
   transfers |-> NoRows, pathways |-> NoRows, fares |-> NoRows]

InputClass ==
  [hierarchy |->
     [Empty EXCEPT
        !.levels = LevelRows({NaN, "l1"}),
        !.stops = StopRows({NaN, "s1", " s1", "s2"}, {NaN, "A"}, {NumNaN},
                           {NumNaN}, {NumNaN}, {NaN, "l1", "l2"},
                           {NaN, "s1", "s2"})],
   stopAttrs |->
     [Empty EXCEPT
        !.stops = StopRows({"s1"}, {NaN, "A", "B"}, {NumNaN, Num(427), Num(428)},
                           {NumNaN, Num(233)}, {NumNaN, Num(10), Num(-5), Txt},
                           {NaN}, {NaN})],
   routes |->
     [Empty EXCEPT
        !.routes = RouteRows({NaN, "r1", "r2"}, {NaN, "94", "X"},
                             {NumNaN, Num(10), Num(30), Num(19), Txt},
                             {NaN, "a1"})],
   trips |->
     [Empty EXCEPT
        !.routes = PlainRoutes({"r1"}, {Num(10)}, {NaN}),
        !.trips = TripRows({NaN, "t1", "t2"}, {NaN, "r1", " r1", "r2"},
                           {NaN, "H", "G"}, {NumNaN, Num(10), Num(20)})],
   transfers |->
     [Empty EXCEPT
        !.stops = PlainStops({"s1", "s2"}),
        !.routes = PlainRoutes({"r1"}, {Num(10), Num(30)}, {NaN}),
        !.trips = PlainTrips,
        !.transfers =
           TransferRows({"s1", " s1", "s3"}, {"s2"}, {NumNaN, Num(1800)},
                        {NaN, "r1", "r2"}, {NaN}, {NaN, "t1", "t2"}, {NaN})
           \cup TransferRows({"s1"}, {"s2", "s3", NaN}, {NumNaN, Num(1800)},
                             {NaN}, {NaN, "r1", "r2"}, {NaN}, {NaN, "t1", "t2"})],
   pathways |->
     [Empty EXCEPT
        !.stops = PlainStops({"s1", "s2", "s3"}),
        !.pathways = PathwayRows({NaN, "p1"}, {"s1", " s1", "s2"}, {"s2", "s3"},
                                 {NumNaN, Num(50), Num(20)},
                                 {NumNaN, Num(10)})],
   network |->
     [Empty EXCEPT
        !.stops = PlainStops({"s1", "s2", "s3"}),
        !.transfers = TransferRows({"s1", "s2"}, {"s2", "s3"}, {Num(3000)},
                                   {NaN}, {NaN}, {NaN}, {NaN}),
        !.pathways = PathwayRows({"p1", "p2"}, {"s1", "s3"}, {"s1", "s2"},
                                 {Num(50)}, {Num(0)})],
   fares |->
     [Empty EXCEPT
        !.routes = PlainRoutes({"r1"}, {NumNaN}, {NaN, "a1"}),
        !.fares = FareRows({NaN, "f1"}, {NumNaN, Num(16), Num(40)},
                           {NumNaN, Num(0), Num(10)}, {NumNaN, Num(900)},
                           {NaN, "a1", "a2"})]]

\* The rows a table may hold in the run's input class.
Rows(table) == InputClass[profile][table]

\* The tables, in the order main() reads them.
Tables == <<"levels", "stops", "routes", "trips", "transfers", "pathways", "fares">>

\* _limit(df, MAX_*): the number of rows of a table the run reads at most.
Limit == [levels |-> MaxLevels, stops |-> MaxStops, routes |-> MaxRoutes,
          trips |-> MaxTrips, transfers |-> MaxTransfers,
          pathways |-> MaxPathways, fares |-> MaxFares]

\* What follows a table: the next table, or the reasoner call.
After(table) ==
  LET i == CHOOSE k \in 1..Len(Tables) : Tables[k] = table
  IN IF i < Len(Tables) THEN Tables[i + 1] ELSE "reason"

NoRow == [table |-> "none"]
Read(table, row) == [table |-> table, row |-> row]

----------------------------------------------------------------------------
\* The state after construction: the schema is declared, no table is read.
Init ==
  /\ profile \in DOMAIN InputClass
  /\ pc = "levels"
  /\ n = 0
  /\ level_by_id = {} /\ stop_by_id = {} /\ route_by_id = {}
  /\ agency_by_id = {} /\ trip_by_id = {}
  /\ inds = {} /\ edges = {} /\ data = {} /\ inferred = {}
  /\ counts = <<>>
  /\ last = NoRow
  /\ late = {}
  /\ replaced = {}

\* History: the assertions the step removed are the values it replaced.
Note == replaced' = replaced \cup {<<d[1], d[2]>> : d \in data \ data'}
                             \cup {<<e[2], e[1]>> : e \in edges \ edges'}

\* The step read one row of the table pc names.
Consume(row) == /\ n' = n + 1
                /\ last' = Read(pc, row)
                /\ UNCHANGED <<pc, profile, inferred, counts>>

\* for _, row in levels_df.iterrows()
LevelRow ==
  /\ pc = "levels" /\ n < Limit.levels
  /\ \E row \in Rows("levels") :
       LET lid == SafeStr(row.level_id)
       IN /\ Consume(row)
          /\ IF lid = ""
             THEN UNCHANGED <<inds, level_by_id>>
             ELSE /\ inds' = inds \cup {Ind("Level", <<lid>>)}
                  /\ level_by_id' = level_by_id \cup {lid}
          /\ UNCHANGED <<stop_by_id, route_by_id, agency_by_id, trip_by_id,
                         edges, data, late>>
          /\ Note

\* Variant: any named parent counts as known.
ParentKnownAnywhere(parent, sid, stops) == parent # ""

\* "if parent and parent in stop_by_id", asked after stop_by_id[sid] = s.
ParentKnown(parent, sid, stops) == parent # "" /\ parent \in stops \cup {sid}

\* for _, row in stops_df.iterrows()
StopRow ==
  /\ pc = "stops" /\ n < Limit.stops
  /\ \E row \in Rows("stops") :
       LET sid == SafeStr(row.stop_id)
           s == Ind("Stop", <<sid>>)
           lid == SafeStr(row.level_id)
           parent == SafeStr(row.parent_station)
           d1 == SetIf(data, s, "stopName", SafeText(row.stop_name))
           d2 == SetIf(d1, s, "stopLat", SafeFloat(row.stop_lat))
           d3 == SetIf(d2, s, "stopLon", SafeFloat(row.stop_lon))
           d4 == SetIf(d3, s, "locationType", SafeInt(row.location_type))
           e1 == IF lid # "" /\ lid \in level_by_id
                 THEN AppendEdge(edges, "hasLevel", s, Ind("Level", <<lid>>))
                 ELSE edges
           e2 == IF ParentKnown(parent, sid, stop_by_id)
                 THEN SetEdge(e1, "parentStation", s, Ind("Stop", <<parent>>))
                 ELSE e1
       IN /\ Consume(row)
          /\ IF sid = ""
             THEN UNCHANGED <<inds, stop_by_id, data, edges, late>>
             ELSE /\ inds' = inds \cup {s}
                  /\ stop_by_id' = stop_by_id \cup {sid}
                  /\ data' = d4
                  /\ edges' = e2
                  /\ late' = IF parent # "" /\ ~ParentKnown(parent, sid, stop_by_id)
                             THEN late \cup {<<sid, parent>>} ELSE late
          /\ UNCHANGED <<level_by_id, route_by_id, agency_by_id, trip_by_id>>
          /\ Note

\* for _, row in routes_df.iterrows()
RouteRow ==
  /\ pc = "routes" /\ n < Limit.routes
  /\ \E row \in Rows("routes") :
       LET rid == SafeStr(row.route_id)
           r == Ind("Route", <<rid>>)
           aid == SafeStr(row.agency_id)
           d1 == SetIf(data, r, "routeShortName", SafeText(row.route_short_name))
           d2 == SetIf(d1, r, "routeType", SafeInt(row.route_type))
       IN /\ Consume(row)
          /\ IF rid = ""
             THEN UNCHANGED <<inds, route_by_id, agency_by_id, data>>
             ELSE /\ route_by_id' = route_by_id \cup {rid}
                  /\ data' = d2
                  /\ IF aid # ""
                     THEN /\ inds' = inds \cup {r, Ind("Agency", <<aid>>)}
                          /\ agency_by_id' = agency_by_id \cup {aid}
                     ELSE /\ inds' = inds \cup {r}
                          /\ UNCHANGED agency_by_id
          /\ UNCHANGED <<level_by_id, stop_by_id, trip_by_id, edges, late>>
          /\ Note

\* Variant: every trips row with a trip_id is kept.
KeepAnyTrip(row, routes) == SafeStr(row.trip_id) # ""

\* trips_df["route_id"].astype(str).isin(route_by_id.keys()), then
\* "if not tid or rid not in route_by_id: continue".
KeepTrip(row, routes) ==
  /\ AsStr(row.route_id) \in routes
  /\ SafeStr(row.trip_id) # ""
  /\ SafeStr(row.route_id) \in routes

\* for _, row in trips_df2.iterrows()
TripRow ==
  /\ pc = "trips" /\ n < Limit.trips
  /\ \E row \in Rows("trips") :
       LET tid == SafeStr(row.trip_id)
           rid == SafeStr(row.route_id)
           t == Ind("Trip", <<tid>>)
           d1 == SetIf(data, t, "tripHeadsign", SafeText(row.trip_headsign))
           d2 == SetIf(d1, t, "wheelchairAccessible",
                       SafeInt(row.wheelchair_accessible))
       IN /\ Consume(row)
          /\ IF ~KeepTrip(row, route_by_id)
             THEN UNCHANGED <<inds, trip_by_id, edges, data>>
             ELSE /\ inds' = inds \cup {t}
                  /\ trip_by_id' = trip_by_id \cup {tid}
                  /\ edges' = AppendEdge(edges, "belongsToRoute", t,
                                         Ind("Route", <<rid>>))
                  /\ data' = d2
          /\ UNCHANGED <<level_by_id, stop_by_id, route_by_id, agency_by_id, late>>
          /\ Note

\* Variant: no filter.
KeepAll(row, stops) == TRUE

\* The filter that builds transfers_df2 and pathways_df2: both stop cells, as
\* text, are keys of stop_by_id.
BothStopsLoaded(row, stops) ==
  /\ AsStr(row.from_stop_id) \in stops
  /\ AsStr(row.to_stop_id) \in stops

\* "if x and x in by_id: tr.prop.append(by_id[x])"
LinkIfLoaded(E, P, s, cls, x, by_id) ==
  IF x # "" /\ x \in by_id THEN AppendEdge(E, P, s, Ind(cls, <<x>>)) ELSE E

\* for i, row in transfers_df2.iterrows(); stop_by_id[fs] raises KeyError when
\* fs is no key, after the Transfer individual is created.
TransferRow ==
  /\ pc = "transfers" /\ n < Limit.transfers
  /\ \E row \in Rows("transfers") :
       LET fs == SafeStr(row.from_stop_id)
           ts == SafeStr(row.to_stop_id)
           fr == SafeStr(row.from_route_id)
           trr == SafeStr(row.to_route_id)
           ft == SafeStr(row.from_trip_id)
           tt == SafeStr(row.to_trip_id)
           tr == Ind("Transfer", <<fs, ts, n>>)
           sf == Ind("Stop", <<fs>>)
           st == Ind("Stop", <<ts>>)
           e1 == AppendEdge(edges, "fromStop", tr, sf)
           e2 == AppendEdge(e1, "toStop", tr, st)
           e3 == LinkIfLoaded(e2, "fromRoute", tr, "Route", fr, route_by_id)
           e4 == LinkIfLoaded(e3, "toRoute", tr, "Route", trr, route_by_id)
           e5 == LinkIfLoaded(e4, "fromTrip", tr, "Trip", ft, trip_by_id)
           e6 == LinkIfLoaded(e5, "toTrip", tr, "Trip", tt, trip_by_id)
           e7 == IF fr # "" /\ fr \in route_by_id
                 THEN AppendEdge(e6, "servesStop", Ind("Route", <<fr>>), sf)
                 ELSE e6
           e8 == IF trr # "" /\ trr \in route_by_id
                 THEN AppendEdge(e7, "servesStop", Ind("Route", <<trr>>), st)
                 ELSE e7
       IN /\ n' = n + 1
          /\ last' = Read(pc, row)
          /\ IF ~BothStopsLoaded(row, stop_by_id) \/ fs = "" \/ ts = ""
             THEN UNCHANGED <<pc, inds, edges, data>>
             ELSE IF fs \notin stop_by_id \/ ts \notin stop_by_id
             THEN /\ pc' = "error"
                  /\ inds' = inds \cup {tr}
                  /\ edges' = IF fs \in stop_by_id THEN e1 ELSE edges
                  /\ UNCHANGED data
             ELSE /\ inds' = inds \cup {tr}
                  /\ data' = SetIf(data, tr, "minTransferTime",
                                   SafeInt(row.min_transfer_time))
                  /\ edges' = AppendEdge(e8, "connectedTo", sf, st)
                  /\ UNCHANGED pc
          /\ UNCHANGED <<profile, inferred, counts, level_by_id, stop_by_id,
                         route_by_id, agency_by_id, trip_by_id, late>>
          /\ Note

\* for _, row in pathways_df2.iterrows()
PathwayRow ==
  /\ pc = "pathways" /\ n < Limit.pathways
  /\ \E row \in Rows("pathways") :
       LET pid == SafeStr(row.pathway_id)
           fs == SafeStr(row.from_stop_id)
           ts == SafeStr(row.to_stop_id)
           p == Ind("Pathway", <<pid>>)
           sf == Ind("Stop", <<fs>>)
           st == Ind("Stop", <<ts>>)
           bi == SafeInt(row.is_bidirectional)
           e1 == AppendEdge(edges, "connectsStop", p, sf)
           e2 == AppendEdge(e1, "connectsStop", p, st)
           e3 == AppendEdge(e2, "connectedTo", sf, st)
           e4 == IF bi = {1} THEN AppendEdge(e3, "connectedTo", st, sf) ELSE e3
           d1 == SetIf(data, p, "pathwayMode", SafeInt(row.pathway_mode))
           d2 == SetIf(d1, p, "isBidirectional", bi)
       IN /\ n' = n + 1
          /\ last' = Read(pc, row)
          /\ IF ~BothStopsLoaded(row, stop_by_id) \/ pid = "" \/ fs = "" \/ ts = ""
             THEN UNCHANGED <<pc, inds, edges, data>>
             ELSE IF fs \notin stop_by_id \/ ts \notin stop_by_id
             THEN /\ pc' = "error"
                  /\ inds' = inds \cup {p}
                  /\ edges' = IF fs \in stop_by_id THEN e1 ELSE edges
                  /\ UNCHANGED data
             ELSE /\ inds' = inds \cup {p}
                  /\ data' = d2
                  /\ edges' = e4
                  /\ UNCHANGED pc
          /\ UNCHANGED <<profile, inferred, counts, level_by_id, stop_by_id,
                         route_by_id, agency_by_id, trip_by_id, late>>
          /\ Note

\* for _, row in fares_df.iterrows()
FareRow ==
  /\ pc = "fares" /\ n < Limit.fares
  /\ \E row \in Rows("fares") :
       LET fid == SafeStr(row.fare_id)
           f == Ind("Fare", <<fid>>)
           aid == SafeStr(row.agency_id)
           ag == Ind("Agency", <<aid>>)
           d1 == SetIf(data, f, "farePrice", SafeFloat(row.price))
           d2 == SetIf(d1, f, "paymentMethod", SafeInt(row.payment_method))
           d3 == SetIf(d2, f, "transferDuration", SafeInt(row.transfer_duration))
       IN /\ Consume(row)
          /\ IF fid = ""
             THEN UNCHANGED <<inds, agency_by_id, data, edges>>
             ELSE /\ data' = d3
                  /\ IF aid # ""
                     THEN /\ inds' = inds \cup {f, ag}
                          /\ agency_by_id' = agency_by_id \cup {aid}
                          /\ edges' = AppendEdge(edges, "providesFare", ag, f)
                     ELSE /\ inds' = inds \cup {f}
                          /\ UNCHANGED <<agency_by_id, edges>>
          /\ UNCHANGED <<level_by_id, stop_by_id, route_by_id, trip_by_id, late>>
          /\ Note

\* The table has no further row (or _limit cut it): main() goes on to the next
\* table, or to the reasoner after the last.
EndTable ==
  /\ pc \in {Tables[k] : k \in 1..Len(Tables)}
  /\ pc' = After(pc)
  /\ n' = 0
  /\ last' = NoRow
  /\ UNCHANGED <<profile, level_by_id, stop_by_id, route_by_id, agency_by_id,
                 trip_by_id, inds, edges, data, inferred, counts, late, replaced>>

----------------------------------------------------------------------------
\* sync_reasoner(): HermiT classifies the individuals.  It is called with its
\* defaults (infer_property_values = False), so it adds class memberships and
\* no property value.  Entailment is open-world: what is not asserted is
\* unknown, not false.

\* The class and its declared ancestors.
Ancestors(c) == IF c \in DOMAIN ParentClass THEN {c, ParentClass[c]} ELSE {c}

\* x is asserted to be of class c: onto.C(name) made it one of C.
Asserted(x, c) == c \in Ancestors(x[1])

\* P.some(C) at x: an asserted P-edge to an individual asserted to be a C.
Some(E, P, x, c) == \E y \in Targets(E, P, x) : Asserted(y, c)

\* P.only(C) at x: entailed only when no further P-edge can exist, which the
\* schema grants for a functional property with its value asserted.
Only(E, P, x, c) ==
  /\ P \in FunctionalObjectProps
  /\ Targets(E, P, x) # {}
  /\ \A y \in Targets(E, P, x) : Asserted(y, c)

\* P.value(v) at x: the asserted value of the data property is v.
HasValue(D, a, x, v) == v \in Values(D, x, a)

\* Variant: any route with a routeType.
MetroLineAnyType(I, D) ==
  {x \in I : Asserted(x, "Route") /\ Values(D, x, "routeType") # {}}

\* MetroLine.equivalent_to = [Route & routeType.value(1)]
MetroLine(I, D) == {x \in I : Asserted(x, "Route") /\ HasValue(D, "routeType", x, 1)}

\* ServedStop.equivalent_to = [Stop & servesStop.inverse.some(Route)]
ServedStop(I, E) ==
  {x \in I : Asserted(x, "Stop") /\ Some(E, "isServedBy", x, "Route")}

\* MetroOnlyStop.equivalent_to = [Stop & servesStop.inverse.only(MetroRoute)]
MetroOnlyStop(I, E) ==
  {x \in I : Asserted(x, "Stop") /\ Only(E, "isServedBy", x, "MetroRoute")}

\* AccessibleStop.equivalent_to = [Stop & connectsStop.some(ElevatorPathway)]
AccessibleStop(I, E) ==
  {x \in I : Asserted(x, "Stop") /\ Some(E, "connectsStop", x, "ElevatorPathway")}

\* SurfaceStop.equivalent_to = [BusStop | TramStop]
SurfaceStop(I) == {x \in I : Asserted(x, "BusStop") \/ Asserted(x, "TramStop")}

\* WheelchairFriendlyTrip.equivalent_to = [Trip & wheelchairAccessible.value(1)]
WheelchairFriendlyTrip(I, D) ==
  {x \in I : Asserted(x, "Trip") /\ HasValue(D, "wheelchairAccessible", x, 1)}

\* The memberships the reasoner adds: those of the classes with a definition.
Classify(I, E, D) ==
  {<<x, "MetroLine">> : x \in MetroLine(I, D)}
    \cup {<<x, "ServedStop">> : x \in ServedStop(I, E)}
    \cup {<<x, "MetroOnlyStop">> : x \in MetroOnlyStop(I, E)}
    \cup {<<x, "AccessibleStop">> : x \in AccessibleStop(I, E)}
    \cup {<<x, "SurfaceStop">> : x \in SurfaceStop(I)}
    \cup {<<x, "WheelchairFriendlyTrip">> : x \in WheelchairFriendlyTrip(I, D)}

Reason ==
  /\ pc = "reason"
  /\ inferred' = Classify(inds, edges, data)
  /\ pc' = "save"
  /\ UNCHANGED <<n, profile, level_by_id, stop_by_id, route_by_id, agency_by_id,
                 trip_by_id, inds, edges, data, counts, last, late, replaced>>

\* onto.save(...) and the printed counts; the store is written as it is.
Save ==
  /\ pc = "save"
  /\ counts' = <<Cardinality(stop_by_id), Cardinality(route_by_id),
                 Cardinality(trip_by_id)>>
  /\ pc' = "done"
  /\ UNCHANGED <<n, profile, level_by_id, stop_by_id, route_by_id, agency_by_id,
                 trip_by_id, inds, edges, data, inferred, last, late, replaced>>

Next == \/ LevelRow \/ StopRow \/ RouteRow \/ TripRow \/ TransferRow
        \/ PathwayRow \/ FareRow \/ EndTable \/ Reason \/ Save

Spec == Init /\ [][Next]_vars

\* The members of class c in the store: asserted, or added by the reasoner.
Members(c) ==
  {x \in inds : Asserted(x, c)
                 \/ \E m \in inferred : m[1] = x /\ c \in Ancestors(m[2])}

----------------------------------------------------------------------------
\* Properties.

\* The step reads one row of table t.
RowStep(t) == pc = t /\ n' = n + 1

\* The stop, route and trip individuals and the dicts that count them.
Catalogue == <<stop_by_id, route_by_id, trip_by_id,
               {x \in inds : x[1] \in {"Stop", "Route", "Trip"}}>>

\* Both stop cells of a transfers or pathways row are, as they stand in the
\* table, keys of stop_by_id.
StopCellsAreKeys(row) ==
  AsStr(row.from_stop_id) \in stop_by_id /\ AsStr(row.to_stop_id) \in stop_by_id

\* The edges of property P.
EdgesOf(P) == {e \in edges : e[1] = P}

\* C1: a transfers row whose from_stop_id or to_stop_id names no loaded stop
\* adds no individual, no edge and no value, raises no error, and leaves the
\* stop, route and trip individuals and counts as they were.
C1_DanglingTransferAddsNothing ==
  [][(RowStep("transfers")
      /\ (SafeStr(last'.row.from_stop_id) \notin stop_by_id
          \/ SafeStr(last'.row.to_stop_id) \notin stop_by_id))
     => (inds' = inds /\ edges' = edges /\ data' = data
         /\ Catalogue' = Catalogue /\ pc' = "transfers")]_vars

\* C1 witness: the row just read names a from-stop that is not loaded, while
\* its to-stop, its from-route and its from-trip are loaded.
C1_Witness ==
  /\ pc = "transfers" /\ last.table = "transfers"
  /\ SafeStr(last.row.from_stop_id) \notin stop_by_id
  /\ SafeStr(last.row.to_stop_id) \in stop_by_id
  /\ SafeStr(last.row.from_route_id) \in route_by_id
  /\ SafeStr(last.row.from_trip_id) \in trip_by_id
  /\ edges # {}

\* The individual a row of table t stands for (transfers: the row at index i).
RowInd(t, row, i) ==
  CASE t = "stops" -> Ind("Stop", <<SafeStr(row.stop_id)>>)
    [] t = "trips" -> Ind("Trip", <<SafeStr(row.trip_id)>>)
    [] t = "pathways" -> Ind("Pathway", <<SafeStr(row.pathway_id)>>)
    [] t = "transfers" -> Ind("Transfer", <<SafeStr(row.from_stop_id),
                                            SafeStr(row.to_stop_id), i>>)

\* The row carries an identifier of its own (transfers rows have none to miss).
HasOwnId(t, row) ==
  CASE t = "stops" -> SafeStr(row.stop_id) # ""
    [] t = "trips" -> SafeStr(row.trip_id) # ""
    [] t = "pathways" -> SafeStr(row.pathway_id) # ""
    [] t = "transfers" -> TRUE

\* The row refers to an identifier that is not loaded.
Dangling(t, row) ==
  CASE t = "stops" -> SafeStr(row.parent_station) \notin stop_by_id \cup {""}
                      \/ SafeStr(row.level_id) \notin level_by_id \cup {""}
    [] t = "trips" -> SafeStr(row.route_id) \notin route_by_id
    [] t \in {"pathways", "transfers"} ->
         SafeStr(row.from_stop_id) \notin stop_by_id
         \/ SafeStr(row.to_stop_id) \notin stop_by_id

\* C2 as stated: a trips, transfers, pathways or stops row with a reference
\* to an absent identifier still has its individual created.
C2_RowNeverDropped ==
  (last.table \in {"stops", "trips", "pathways", "transfers"}
   /\ HasOwnId(last.table, last.row) /\ Dangling(last.table, last.row))
  => RowInd(last.table, last.row, n - 1) \in inds

\* C2 amended, stops rows: the stop is created and its name recorded whatever
\* its level_id and parent_station name; an absent level or parent drops
\* that edge alone.
C2_StopRowKept ==
  RowStep("stops") /\ SafeStr(last'.row.stop_id) # "" =>
    LET row == last'.row
        s == Ind("Stop", <<SafeStr(row.stop_id)>>)
        lid == SafeStr(row.level_id)
        parent == SafeStr(row.parent_station)
    IN /\ s \in inds'
       /\ SafeText(row.stop_name) \subseteq Values(data', s, "stopName")
       /\ (lid \in level_by_id
             => Ind("Level", <<lid>>) \in Targets(edges', "hasLevel", s))
       /\ (lid \notin level_by_id
             => Targets(edges', "hasLevel", s) = Targets(edges, "hasLevel", s))
       /\ (parent \in stop_by_id
             => Targets(edges', "parentStation", s) = {Ind("Stop", <<parent>>)})
       /\ (parent \notin stop_by_id' \cup {""}
             => Targets(edges', "parentStation", s)
                  = Targets(edges, "parentStation", s))

\* C2 amended, transfers rows with both stops loaded: the transfer, its two
\* stop edges, its minTransferTime and connectedTo are recorded; an absent
\* route or trip drops the edges of that reference alone.
C2_TransferRowKept ==
  RowStep("transfers") /\ StopCellsAreKeys(last'.row) =>
    LET row == last'.row
        tr == RowInd("transfers", row, n)
        sf == Ind("Stop", <<SafeStr(row.from_stop_id)>>)
        st == Ind("Stop", <<SafeStr(row.to_stop_id)>>)
        Ref(P, cls, x, by_id) ==
          Targets(edges', P, tr) = IF x \in by_id THEN {Ind(cls, <<x>>)} ELSE {}
    IN /\ tr \in inds' \ inds
       /\ Targets(edges', "fromStop", tr) = {sf}
       /\ Targets(edges', "toStop", tr) = {st}
       /\ <<"connectedTo", sf, st>> \in edges'
       /\ Values(data', tr, "minTransferTime") = SafeInt(row.min_transfer_time)
       /\ Ref("fromRoute", "Route", SafeStr(row.from_route_id), route_by_id)
       /\ Ref("toRoute", "Route", SafeStr(row.to_route_id), route_by_id)
       /\ Ref("fromTrip", "Trip", SafeStr(row.from_trip_id), trip_by_id)
       /\ Ref("toTrip", "Trip", SafeStr(row.to_trip_id), trip_by_id)
       /\ (SafeStr(row.from_route_id) \notin route_by_id
           /\ SafeStr(row.to_route_id) \notin route_by_id
             => EdgesOf("servesStop")' = EdgesOf("servesStop"))

\* C2 amended, dropped rows: a trips row whose route_id cell is no loaded
\* route key and a transfers or pathways row with a stop cell that is no
\* loaded stop key leave the store as it was.
C2_RowDropped ==
  (\/ RowStep("trips") /\ AsStr(last'.row.route_id) \notin route_by_id
   \/ RowStep("transfers") /\ ~StopCellsAreKeys(last'.row)
   \/ RowStep("pathways") /\ ~StopCellsAreKeys(last'.row))
    => (inds' = inds /\ edges' = edges /\ data' = data /\ trip_by_id' = trip_by_id)

\* C2 amended: a dangling level_id or parent_station of a stops row, and a
\* dangling route or trip reference of a transfers row whose stops are
\* loaded, drop that edge alone; a trips row with an absent route_id and a
\* transfers or pathways row with an absent stop id are dropped whole.
C2_EdgeOrRowDropped ==
  [][C2_StopRowKept /\ C2_TransferRowKept /\ C2_RowDropped]_vars

\* C2 witness: a transfers row with loaded stops, an absent from-route and a
\* loaded from-trip was read, and its transfer exists.
C2_Witness ==
  /\ last.table = "transfers"
  /\ SafeStr(last.row.from_route_id) \notin route_by_id \cup {""}
  /\ SafeStr(last.row.from_trip_id) \in trip_by_id
  /\ RowInd("transfers", last.row, n - 1) \in inds

\* C3 as stated: once the reasoner has run, the stored connectedTo edges are
\* transitively closed.
C3_ConnectedToClosed ==
  pc \in {"save", "done"} =>
    \A e \in EdgesOf("connectedTo") : \A f \in EdgesOf("connectedTo") :
      e[3] = f[2] => <<"connectedTo", e[2], f[3]>> \in edges

\* C4: for each declared inverse pair an edge is present exactly when its
\* mirrored edge is, in every state of the run.
C4_InverseMirrored ==
  \A P \in DOMAIN InverseOf :
    \A e \in EdgesOf(P) : <<InverseOf[P], e[3], e[2]>> \in edges

\* C4 witness: ingestion is under way and edges of two inverse pairs exist.
C4_Witness ==
  /\ pc = "transfers"
  /\ EdgesOf("servesStop") # {}
  /\ EdgesOf("belongsToRoute") # {}

\* What a row of table t assigns to functional properties, as
\* <<individual, property, value>>, when the row is read with the dicts as
\* they are before the step (i: the row's index).
Supplied(t, row, i) ==
  LET On(x, a, opt) == {<<x, a, v>> : v \in opt}
  IN CASE t = "stops" ->
            LET s == RowInd(t, row, i)
            IN IF ~HasOwnId(t, row) THEN {}
               ELSE On(s, "stopName", SafeText(row.stop_name))
                      \cup On(s, "stopLat", SafeFloat(row.stop_lat))
                      \cup On(s, "stopLon", SafeFloat(row.stop_lon))
                      \cup On(s, "locationType", SafeInt(row.location_type))
                      \cup On(s, "parentStation",
                              {Ind("Stop", <<p>>) :
                                 p \in {SafeStr(row.parent_station)}
                                         \cap (stop_by_id \cup {SafeStr(row.stop_id)})})
       [] t = "routes" ->
            LET r == Ind("Route", <<SafeStr(row.route_id)>>)
            IN IF SafeStr(row.route_id) = "" THEN {}
               ELSE On(r, "routeShortName", SafeText(row.route_short_name))
                      \cup On(r, "routeType", SafeInt(row.route_type))
       [] t = "trips" ->
            LET x == RowInd(t, row, i)
            IN IF ~HasOwnId(t, row) \/ AsStr(row.route_id) \notin route_by_id
               THEN {}
               ELSE On(x, "tripHeadsign", SafeText(row.trip_headsign))
                      \cup On(x, "wheelchairAccessible",
                              SafeInt(row.wheelchair_accessible))
       [] t = "transfers" ->
            IF ~StopCellsAreKeys(row) THEN {}
            ELSE On(RowInd(t, row, i), "minTransferTime",
                    SafeInt(row.min_transfer_time))
       [] t = "pathways" ->
            LET x == RowInd(t, row, i)
            IN IF ~HasOwnId(t, row) \/ ~StopCellsAreKeys(row) THEN {}
               ELSE On(x, "pathwayMode", SafeInt(row.pathway_mode))
                      \cup On(x, "isBidirectional", SafeInt(row.is_bidirectional))
       [] t = "fares" ->
            LET f == Ind("Fare", <<SafeStr(row.fare_id)>>)
            IN IF SafeStr(row.fare_id) = "" THEN {}
               ELSE On(f, "farePrice", SafeFloat(row.price))
                      \cup On(f, "paymentMethod", SafeInt(row.payment_method))
                      \cup On(f, "transferDuration", SafeInt(row.transfer_duration))
       [] t = "levels" -> {}

\* The functional assertions of the store, as <<individual, property, value>>.
Functional(E, D) ==
  D \cup {<<e[2], e[1], e[3]>> : e \in {f \in E : f[1] \in FunctionalObjectProps}}

\* Every individual holds at most one value of every functional property.
AtMostOneValue ==
  \A v \in Functional(edges, data) : \A w \in Functional(edges, data) :
    v[1] = w[1] /\ v[2] = w[2] => v = w

\* A row step leaves, for each functional property it supplies, exactly the
\* supplied value, and every other value as it was.
LastWriteWins ==
  \A t \in {Tables[k] : k \in 1..Len(Tables)} :
    RowStep(t) =>
      LET sup == Supplied(t, last'.row, n)
          set == {<<w[1], w[2]>> : w \in sup}
      IN Functional(edges', data')
           = {v \in Functional(edges, data) : <<v[1], v[2]>> \notin set} \cup sup

\* C5: every functional relation or attribute holds at most one value per
\* individual, the one of the most recent row that supplied it, also when
\* several rows address the same individual.
C5_FunctionalLastWriteWins == [][LastWriteWins /\ AtMostOneValue']_vars

\* C5 witness: a second row for the same stop replaced its name and its
\* location type, and the stop holds the values of that row.
C5_Witness ==
  LET s == Ind("Stop", <<"s1">>)
  IN /\ last.table = "stops"
     /\ {<<s, "stopName">>, <<s, "locationType">>} \subseteq replaced
     /\ Values(data, s, "stopName") = SafeText(last.row.stop_name)
     /\ Values(data, s, "locationType") = SafeInt(last.row.location_type)
     /\ Values(data, s, "stopLat") # SafeFloat(last.row.stop_lat)

\* C6 as stated: after classification FastTransfer and SlowTransfer are
\* disjoint and together hold exactly the transfers with a minTransferTime.
C6_FastSlowPartition ==
  pc \in {"save", "done"} =>
    /\ Members("FastTransfer") \cap Members("SlowTransfer") = {}
    /\ Members("FastTransfer") \cup Members("SlowTransfer")
         = {x \in Members("Transfer") : Values(data, x, "minTransferTime") # {}}

\* C7 as stated: after classification a stop is in AccessibleStop exactly
\* when an elevator pathway (GTFS pathway_mode 5) connects it.
C7_AccessibleIffElevator ==
  pc \in {"save", "done"} =>
    \A s \in Members("Stop") :
      s \in Members("AccessibleStop")
        <=> \E e \in EdgesOf("connectsStop") :
              e[3] = s /\ 5 \in Values(data, e[2], "pathwayMode")

\* C8 as stated: after classification every stop that no route serves is in
\* MetroOnlyStop.
C8_UnservedStopIsMetroOnly ==
  pc \in {"save", "done"} =>
    \A s \in Members("Stop") :
      Targets(edges, "isServedBy", s) = {} => s \in Members("MetroOnlyStop")

\* C9: after classification the members of MetroLine are exactly the routes
\* whose routeType is 1; a route of another type or of no type is none.
C9_MetroLineIsTypeOne ==
  pc \in {"save", "done"} =>
    Members("MetroLine")
      = {x \in inds : x[1] = "Route" /\ Values(data, x, "routeType") = {1}}

\* C9 witness: classification is over; one route has type 1 and is a
\* MetroLine, another has type 3 and is none.
C9_Witness ==
  /\ pc = "done"
  /\ \E x \in Members("MetroLine") : Values(data, x, "routeType") = {1}
  /\ \E y \in Members("Route") \ Members("MetroLine") :
       Values(data, y, "routeType") = {3}

\* C10: a stops row yields a parentStation edge exactly when the stop it
\* names as parent was created by an earlier row or is the row's own stop;
\* otherwise the reference is dropped, also when that stop is loaded later.
C10_ParentNeedsEarlierRow ==
  [][RowStep("stops") /\ SafeStr(last'.row.stop_id) # "" =>
       LET sid == SafeStr(last'.row.stop_id)
           parent == SafeStr(last'.row.parent_station)
           s == Ind("Stop", <<sid>>)
       IN IF parent # "" /\ parent \in stop_by_id \cup {sid}
          THEN Targets(edges', "parentStation", s) = {Ind("Stop", <<parent>>)}
          ELSE Targets(edges', "parentStation", s)
                 = Targets(edges, "parentStation", s)]_vars

\* C10 witness: the stops table is read; a stop named a parent whose row came
\* later, the parent is loaded, and the stop has no parentStation edge.
C10_Witness ==
  /\ pc = "routes"
  /\ \E r \in late :
       /\ r[2] \in stop_by_id
       /\ r[1] # r[2]
       /\ Targets(edges, "parentStation", Ind("Stop", <<r[1]>>)) = {}
====
